---- MODULE Spec2Model ----
(***************************************************************************)
(* Model of rslint's `no-case-declarations` rule                           *)
(* (crates/rslint_core/src/groups/errors/no_case_declarations.rs).         *)
(*                                                                         *)
(* The rule runner hands every syntax node of a parsed program to          *)
(* NoCaseDeclaration::check_node together with the rule context that       *)
(* collects diagnostics.  The model builds syntax nodes the way the        *)
(* snippets of rule_tests! are shaped (switch statements with case and     *)
(* default clauses, statements directly in a clause or inside a block),    *)
(* runs check_node on them and records what each invocation reported.      *)
(***************************************************************************)
EXTENDS Integers, Sequences, FiniteSets, TLC

\* Bounds of the model.
MaxClauses == 2     \* clauses of one switch statement
MaxStmts == 2       \* statements directly in the clauses of one switch
MaxRuns == 2        \* invocations of check_node on one rule context

VARIABLES
    node,       \* the syntax node handed to check_node
    ctx,        \* the RuleCtx the runner passes along (diagnostics so far)
    ret,        \* what the last invocation of check_node returned
    out,        \* the diagnostics the last invocation added to ctx
    prevOut,    \* the diagnostics reported for the tree before a rewrite
    wrappedAt,  \* <<clause, statement>> that was wrapped in a block, or <<>>
    phase,      \* "parsed": node not yet checked, "checked": check_node ran
    runs        \* invocations of check_node so far

vars == <<node, ctx, ret, out, prevOut, wrappedAt, phase, runs>>

----------------------------------------------------------------------------
\* The syntax tree (ast::SwitchStmt and the statements of its clauses).

\* let/const, class and function declarations: the lexical declarations
\* the rule is about.
DeclKinds == {"LexicalDeclaration", "ClassDeclaration", "FunctionDeclaration"}

\* Statement kinds the snippets place directly in a clause or in a block:
\* the declarations, `var`, and anything else (`break`).
SimpleKinds == DeclKinds \cup {"VarDecl", "Other"}

\* Kinds of node the runner visits.
NodeKinds == SimpleKinds \cup {"BlockStatement", "SwitchStmt"}

\* Bodies of a `{ ... }` block: empty or holding one statement.
BlockBodies == {<<>>} \cup {<<k>> : k \in SimpleKinds}

\* A statement of a clause: a simple statement or a block with its body.
Statements ==
    [kind : SimpleKinds, body : {<<>>}] \cup
    [kind : {"BlockStatement"}, body : BlockBodies]

\* A node without clauses (every node that is not a switch statement, and
\* `switch (foo) {}`).
MkNode(k) == [kind |-> k, clauses |-> <<>>]

\* A fresh rule context: no diagnostics.
EmptyCtx == [diagnostics |-> <<>>]

\* The statement at position p = <<clause, statement>> of a switch node.
StmtAt(n, p) == n.clauses[p[1]].stmts[p[2]]

\* Number of statements placed directly in the clauses of a node.
RECURSIVE CountStmts(_)
CountStmts(cs) ==
    IF cs = <<>> THEN 0 ELSE Len(Head(cs).stmts) + CountStmts(Tail(cs))

HasDefault(n) == \E c \in 1..Len(n.clauses) : n.clauses[c].isDefault

----------------------------------------------------------------------------
\* Paths into a switch node, in source order.  <<c, s>> is statement s of
\* clause c; <<c, s, i>> is statement i of the block at <<c, s>>.

RECURSIVE Flatten(_)
Flatten(ss) == IF ss = <<>> THEN <<>> ELSE Head(ss) \o Flatten(Tail(ss))

\* The kind of the statement a path leads to.
KindAt(n, path) ==
    IF Len(path) = 2 THEN StmtAt(n, path).kind
    ELSE StmtAt(n, path).body[path[3]]

\* The paths of the statements placed directly in a clause.
DirectPaths(n) ==
    Flatten([c \in 1..Len(n.clauses) |->
                [s \in 1..Len(n.clauses[c].stmts) |-> <<c, s>>]])

\* The paths of all statements, those inside clause-level blocks included.
DeepPaths(n) ==
    Flatten([c \in 1..Len(n.clauses) |->
        Flatten([s \in 1..Len(n.clauses[c].stmts) |->
            <<<<c, s>>>> \o
            [i \in 1..Len(n.clauses[c].stmts[s].body) |-> <<c, s, i>>]])])

\* The let/const, class and function declarations placed directly in a
\* clause: what the rule's documentation and its `err` tests call invalid.
DeclPositions(n) ==
    SelectSeq(DirectPaths(n), LAMBDA p : KindAt(n, p) \in DeclKinds)

\* A diagnostic: the statement it is anchored at and the switch it names.
Diag(n, path) == [anchor |-> path, kind |-> KindAt(n, path), switch |-> n]

Diags(n, paths) == [i \in 1..Len(paths) |-> Diag(n, paths[i])]

Anchors(ds) == [i \in 1..Len(ds) |-> ds[i].anchor]

\* The context after the diagnostics ds were added to it.
Reported(c, ds) == [c EXCEPT !.diagnostics = @ \o ds]

----------------------------------------------------------------------------
\* The rule.

\* Variant: the scan descends into clause-level blocks.
check_node_descends(n, c) ==
    [ret |-> "None",
     ctx |-> IF n.kind = "SwitchStmt"
             THEN Reported(c, Diags(n, SelectSeq(DeepPaths(n),
                        LAMBDA p : KindAt(n, p) \in DeclKinds)))
             ELSE c]

\* Variant: `var` is taken for a lexical declaration.
check_node_flags_var(n, c) ==
    [ret |-> "None",
     ctx |-> IF n.kind = "SwitchStmt"
             THEN Reported(c, Diags(n, SelectSeq(DirectPaths(n),
                        LAMBDA p : KindAt(n, p) \in DeclKinds \cup {"VarDecl"})))
             ELSE c]

\* Variant: the rule remembers that it reported and reports only once per
\* context.
check_node_stateful(n, c) ==
    [ret |-> "None",
     ctx |-> IF n.kind = "SwitchStmt" /\ c.diagnostics = <<>>
             THEN Reported(c, Diags(n, DeclPositions(n)))
             ELSE c]

\* Variant: the node is not tested for being a switch statement; a
\* declaration node is reported wherever it is.
check_node_any_node(n, c) ==
    [ret |-> "None",
     ctx |-> IF n.kind \in DeclKinds
             THEN Reported(c, <<[anchor |-> <<>>, kind |-> n.kind, switch |-> n]>>)
             ELSE Reported(c, Diags(n, DeclPositions(n)))]

\* fn check_node(&self, node: &SyntaxNode, ctx: &mut RuleCtx) -> Option<()>
\* The body is `None`: nothing is added to ctx, for any node.
check_node(n, c) == [ret |-> "None", ctx |-> c]

----------------------------------------------------------------------------
\* The runner and the test harness.

Init ==
    /\ node \in {MkNode(k) : k \in NodeKinds}
    /\ ctx = EmptyCtx
    /\ ret = "pending"
    /\ out = <<>>
    /\ prevOut = <<>>
    /\ wrappedAt = <<>>
    /\ phase = "parsed"
    /\ runs = 0

\* The parser adds a `case e:` or a `default:` clause to the switch.
AddClause(isDefault) ==
    /\ phase = "parsed"
    /\ wrappedAt = <<>>
    /\ node.kind = "SwitchStmt"
    /\ Len(node.clauses) < MaxClauses
    /\ isDefault => ~HasDefault(node)
    /\ node' = [node EXCEPT !.clauses =
                    Append(@, [isDefault |-> isDefault, stmts |-> <<>>])]
    /\ UNCHANGED <<ctx, ret, out, prevOut, wrappedAt, phase, runs>>

\* The parser adds a statement to the last clause of the switch.
AddStatement(stmt) ==
    /\ phase = "parsed"
    /\ wrappedAt = <<>>
    /\ node.kind = "SwitchStmt"
    /\ Len(node.clauses) > 0
    /\ CountStmts(node.clauses) < MaxStmts
    /\ node' = [node EXCEPT !.clauses[Len(node.clauses)].stmts =
                    Append(@, stmt)]
    /\ UNCHANGED <<ctx, ret, out, prevOut, wrappedAt, phase, runs>>

\* The runner invokes the rule on the node.
CheckNode ==
    /\ phase = "parsed"
    /\ runs < MaxRuns
    /\ LET r == check_node(node, ctx)
       IN /\ ctx' = r.ctx
          /\ ret' = r.ret
          /\ out' = SubSeq(r.ctx.diagnostics,
                           Len(ctx.diagnostics) + 1,
                           Len(r.ctx.diagnostics))
    /\ phase' = "checked"
    /\ runs' = runs + 1
    /\ UNCHANGED <<node, prevOut, wrappedAt>>

\* The fix the rule's documentation describes: the declaration at position
\* p is wrapped in a block; the rewritten tree is then checked again.
WrapInBlock(n, p) ==
    [n EXCEPT !.clauses[p[1]].stmts[p[2]] =
        [kind |-> "BlockStatement", body |-> <<@.kind>>]]

WrapDeclaration(c, s) ==
    /\ phase = "checked"
    /\ wrappedAt = <<>>
    /\ node.kind = "SwitchStmt"
    /\ c \in 1..Len(node.clauses)
    /\ s \in 1..Len(node.clauses[c].stmts)
    /\ StmtAt(node, <<c, s>>).kind \in DeclKinds
    /\ node' = WrapInBlock(node, <<c, s>>)
    /\ prevOut' = out
    /\ wrappedAt' = <<c, s>>
    /\ phase' = "parsed"
    /\ UNCHANGED <<ctx, ret, out, runs>>

\* The runner moves on to the next node, with the same rule context.
NextNode(k) ==
    /\ phase = "checked"
    /\ runs < MaxRuns
    /\ node' = MkNode(k)
    /\ out' = <<>>
    /\ prevOut' = <<>>
    /\ wrappedAt' = <<>>
    /\ ret' = "pending"
    /\ phase' = "parsed"
    /\ UNCHANGED <<ctx, runs>>

Next ==
    \/ \E d \in BOOLEAN : AddClause(d)
    \/ \E stmt \in Statements : AddStatement(stmt)
    \/ CheckNode
    \/ \E c \in 1..MaxClauses, s \in 1..MaxStmts : WrapDeclaration(c, s)
    \/ \E k \in NodeKinds : NextNode(k)

Spec == Init /\ [][Next]_vars

----------------------------------------------------------------------------
\* Properties.

Checked == phase = "checked"
CheckedSwitch == Checked /\ node.kind = "SwitchStmt"

\* What check_node reports for a node when handed a fresh context.
FreshOut(n) == check_node(n, EmptyCtx).ctx.diagnostics

\* C1: for every switch node passed to check_node, the number of violations
\* reported equals the number of let/const, class and function declarations
\* that are direct members of some clause's statement sequence.
C1_CountEqualsDirectDeclarations ==
    CheckedSwitch => Len(out) = Len(DeclPositions(node))

\* C2: a declaration inside a BlockStatement within a clause is never
\* reported (no diagnostic is anchored inside a block), and a switch whose
\* only declarations are inside clause-level blocks yields zero violations.
OnlyBlockWrappedDeclarations(n) ==
    /\ DeclPositions(n) = <<>>
    /\ \E i \in 1..Len(DeepPaths(n)) :
          /\ Len(DeepPaths(n)[i]) = 3
          /\ KindAt(n, DeepPaths(n)[i]) \in DeclKinds

C2_BlockInteriorNeverReported ==
    CheckedSwitch =>
        /\ \A i \in 1..Len(out) : Len(out[i].anchor) = 2
        /\ OnlyBlockWrappedDeclarations(node) => out = <<>>

C2_Witness ==
    CheckedSwitch /\ OnlyBlockWrappedDeclarations(node) /\ out = <<>>

\* C3: a `var` declaration directly in a clause never produces a violation,
\* in a case or a default clause and at any position; a switch whose
\* clauses hold only `var` declarations and non-declaration statements
\* yields zero violations.
HasDirectVar(n) ==
    \E i \in 1..Len(DirectPaths(n)) : KindAt(n, DirectPaths(n)[i]) = "VarDecl"

C3_VarNeverReported ==
    CheckedSwitch =>
        /\ \A i \in 1..Len(out) : out[i].kind # "VarDecl"
        /\ (HasDirectVar(node) /\ DeclPositions(node) = <<>>) => out = <<>>

C3_Witness ==
    /\ CheckedSwitch
    /\ out = <<>>
    /\ DeclPositions(node) = <<>>
    /\ \E c \in 1..Len(node.clauses) :
          /\ node.clauses[c].isDefault
          /\ Len(node.clauses[c].stmts) = 2
          /\ node.clauses[c].stmts[2].kind = "VarDecl"

\* C6: replacing one directly placed declaration by a block containing it
\* and checking again removes exactly that declaration's violation: one
\* violation fewer, the others unchanged and in the same order.
C6_WrapRemovesExactlyOne ==
    (Checked /\ wrappedAt # <<>>) =>
        /\ Len(out) = Len(prevOut) - 1
        /\ Anchors(out) =
             SelectSeq(Anchors(prevOut), LAMBDA a : a # wrappedAt)

\* C7: a default clause is checked like a case clause, so a declaration
\* placed directly in a default clause is reported.
C7_DefaultClauseReported ==
    CheckedSwitch =>
        \A c \in 1..Len(node.clauses) :
            \A s \in 1..Len(node.clauses[c].stmts) :
                (node.clauses[c].isDefault
                   /\ node.clauses[c].stmts[s].kind \in DeclKinds)
                => \E i \in 1..Len(out) : out[i].anchor = <<c, s>>

\* C8: statements of other kinds produce no violation and do not change
\* what is reported for their siblings: in a switch whose clauses hold only
\* declarations and other statements, exactly the declarations are
\* reported, each with its own violation.
C8_OtherStatementsIgnored ==
    (CheckedSwitch /\ \A i \in 1..Len(DirectPaths(node)) :
          KindAt(node, DirectPaths(node)[i]) \in DeclKinds \cup {"Other"})
    => Anchors(out) = DeclPositions(node)

\* C9: check_node is a stateless function of the node: whatever was
\* checked before on the same context, an invocation reports what a first
\* invocation on that node reports, and no invocation changes the tree.
C9_StatelessAndReadOnly ==
    /\ [](Checked => out = FreshOut(node))
    /\ [][(phase = "parsed" /\ phase' = "checked") => node' = node]_vars

C9_Witness ==
    /\ CheckedSwitch
    /\ runs = MaxRuns
    /\ DeclPositions(node) # <<>>
    /\ out = FreshOut(node)

\* C10: invoked on a node that is not a switch statement (a let/const,
\* class or function declaration outside any switch included), check_node
\* adds no diagnostic and leaves the rule context unchanged.
C10_NonSwitchLeavesCtx ==
    [][(phase = "parsed" /\ phase' = "checked" /\ node.kind # "SwitchStmt")
        => (ctx' = ctx /\ out' = <<>>)]_vars

C10_Witness ==
    Checked /\ node.kind \in DeclKinds /\ out = <<>> /\ ctx = EmptyCtx

====
